---- MODULE Spec2Model ----
(***************************************************************************)
(* LensProxy (src/src/main/lens-proxy.ts): the reverse proxy that          *)
(* dispatches inbound HTTP requests to a cluster's backend or to the       *)
(* internal router, and retries failed GET requests with a backoff kept in *)
(* the retryCounters map.                                                  *)
(*                                                                         *)
(* A request is one req/res pair handed to handleRequest.  Its position    *)
(* pc[r] is                                                                *)
(*   "idle"       no request in this slot                                  *)
(*   "ensure"     handleRequest awaits contextHandler.ensureServer()       *)
(*   "resolve"    getProxyTarget awaits contextHandler.getApiTarget(..)    *)
(*   "web"        proxy.web(req, res, proxyTarget) is in flight            *)
(*   "timer"      the error hook has set a retry timer for the request     *)
(*   "unknown"    handleRequest answered 503 (no cluster)                  *)
(*   "routed"     handed to router.route                                   *)
(*   "friendly"   the proxyRes hook answered 502 with the cluster's message *)
(*   "passed"     the proxyRes hook returned for a method other than GET   *)
(*   "reset"      the proxyRes hook deleted the request's ledger entry     *)
(*   "kept"       the proxyRes hook found no ledger entry to delete        *)
(*   "failed"     the error hook ran and set no timer                      *)
(*   "suppressed" the error hook returned at once (server closed)          *)
(*   "rejected"   the promise of handleRequest rejected                    *)
(*                                                                         *)
(* An "upgrade" event is handled apart from all that: handleWsUpgrade      *)
(* hands the handshake to a WebSocket server whose "connection" listener   *)
(* calls nodeShell.open; ws holds that connection and the call made.       *)
(***************************************************************************)
EXTENDS Integers, Sequences, FiniteSets, TLC

\* ------------------------------------------------------------- bounds
\* Requests in flight at a time: the req/res pairs alive together.
MaxReqs == 1

\* Requests that Spec lets arrive in all.
MaxIssued == 2

\* Requests in flight at a time under SpecCap.
MaxSlots == 2

\* ---------------------------------------------------------- constants
MaxRetries == 20

RetryDelayMs == 250

InternalServerError == 500

BadGateway == 502

ServiceUnavailable == 503

\* res.statusCode not set.
Unset == 0

KUBE_BASE == "/api-kube"

WatchMarker == "watch="

OopsBody == "Oops, something went wrong."

FriendlyBody == "proxyServerError"

BackendBody == "backend"

TextPlain == "text/plain"

\* Content-Type of a backend response.
BackendType == "application/json"

\* The value of `cluster` when getClusterForRequest finds none.
Undefined == "undefined"

\* ------------------------------------------------------------- inputs
\* Request slots; Spec uses the first MaxReqs, SpecCap the first MaxSlots.
Reqs == 1..MaxReqs

Slots == 1..MaxSlots

AllReqs == Reqs \cup Slots

Methods == {"GET", "POST"}

Hosts == {"c1.localhost"}

\* A path is the sequence of its segments; the API prefix is one segment.
Urls ==
  {<<KUBE_BASE, "pods">>, <<KUBE_BASE, "pods", WatchMarker>>, <<"app">>,
   <<KUBE_BASE, KUBE_BASE, "pods">>}

\* The request of SpecCap: a GET of one API path.
CapUrls == {<<KUBE_BASE, "pods">>}

\* res.statusCode of the response object the HTTP server hands in.
StartStatus == {Unset, 200}

\* proxyRes.statusCode of a backend response.
BackendStatus == {200, BadGateway}

\* The query of an upgrade request: its name/value pairs in order.
WsQueries == {<<>>, <<<<"shell", "sh">>, <<"node", "worker-1">>>>}

VARIABLES
  closed,         \* LensProxy.closed
  retryCounters,  \* LensProxy.retryCounters: key -> count, a function on the keys present
  clusters,       \* hosts for which clusterManager.getClusterForRequest finds a cluster
  pc,             \* position of each request
  req,            \* http.IncomingMessage: method, host header, url, authorization header
  res,            \* http.ServerResponse: statusCode, finished, and what the client was sent
  call,           \* the pending getApiTarget(isWatchRequest) call and the options it returned
  timers,         \* pending setTimeout callbacks in the order they were set
  issued,         \* requests that have arrived so far (counted under Spec only)
  ws              \* the connection of the "upgrade" event and what nodeShell.open was called with

vars == <<closed, retryCounters, clusters, pc, req, res, call, timers, issued, ws>>

NoReq == [method |-> "GET", host |-> "c1.localhost", url |-> <<>>, auth |-> FALSE, retry |-> FALSE]

NoRes ==
  [statusCode |-> Unset, finished |-> FALSE, sentStatus |-> Unset, contentType |-> "", body |-> ""]

NoCall == [watch |-> FALSE, target |-> FALSE]

\* No upgrade connection.  pc is "none", "open" (the handshake completed and the
\* "connection" listener ran) or "aborted" (handleUpgrade aborted the handshake).
NoWs == [pc |-> "none", host |-> "c1.localhost", query |-> <<>>, opened |-> <<>>]

\* ------------------------------------------------- strings as sequences
\* Mutant of StartsWith: any path that is not empty matches.
StartsWith_Mutant(url, prefix) == Len(url) >= 1

\* req.url.startsWith(prefix)
StartsWith(url, prefix) == Len(url) >= 1 /\ url[1] = prefix

\* req.url.includes(marker)
Includes(url, marker) == \E i \in 1..Len(url) : url[i] = marker

\* req.url.replace(prefix, ""): the first occurrence is removed, wherever it is.
Replace(url, prefix) ==
  IF Includes(url, prefix)
  THEN LET i == CHOOSE k \in 1..Len(url) :
                  url[k] = prefix /\ \A j \in 1..(k - 1) : url[j] # prefix
       IN  SubSeq(url, 1, i - 1) \o SubSeq(url, i + 1, Len(url))
  ELSE url

\* ------------------------------------------------------ ServerResponse
\* res.writeHead(code, {"Content-Type": type}): nothing reaches the client once
\* the response is finished.
WriteHead(rs, code, type) ==
  IF rs.finished THEN rs ELSE [rs EXCEPT !.statusCode = code, !.contentType = type]

\* res.end(body): sends the head with the current statusCode and the body, once.
End(rs, body) ==
  IF rs.finished THEN rs
  ELSE [rs EXCEPT !.finished = TRUE, !.sentStatus = rs.statusCode, !.body = body]

\* ---------------------------------------------------------- the ledger
\* `${req.headers.host}${req.url}`
RetryCounterKey(q) == <<q.host, q.url>>

\* Mutant of RetryCount: an absent key counts as 1.
RetryCount_Mutant(key) ==
  IF key \in DOMAIN retryCounters THEN retryCounters[key] ELSE 1

\* this.retryCounters.get(retryCounterKey) || 0
RetryCount(key) ==
  IF key \in DOMAIN retryCounters THEN retryCounters[key] ELSE 0

\* Mutant of TimeoutMs: the delay taken from the count the timer will store.
TimeoutMs_Mutant(retryCount) == (retryCount + 1) * RetryDelayMs

\* retryCount * 250
TimeoutMs(retryCount) == retryCount * RetryDelayMs

\* Mutant of MapSet: the other entries are dropped.
MapSet_Mutant(m, key, n) == [k \in {key} |-> n]

\* this.retryCounters.set(key, n)
MapSet(m, key, n) ==
  [k \in DOMAIN m \cup {key} |-> IF k = key THEN n ELSE m[k]]

\* this.retryCounters.delete(key)
MapDelete(m, key) == [k \in DOMAIN m \ {key} |-> m[k]]

\* Mutant of Retryable: the status of the response is not looked at.
Retryable_AnyStatus(q, rs) == q.method = "GET"

\* Mutant of Retryable: the method is not looked at.
Retryable_Mutant(q, rs) ==
  rs.statusCode = Unset \/ rs.statusCode >= InternalServerError

\* req.method === "GET" && (!res.statusCode || res.statusCode >= 500)
Retryable(q, rs) ==
  q.method = "GET" /\ (rs.statusCode = Unset \/ rs.statusCode >= InternalServerError)

\* Mutant of BelowCap: one retry more.
BelowCap_Mutant(retryCount) == retryCount <= MaxRetries

\* retryCount < 20
BelowCap(retryCount) == retryCount < MaxRetries

\* clusterManager.getClusterForRequest(req) finds a cluster
HasCluster(q) == q.host \in clusters

\* ------------------------------------------------------ getProxyTarget
\* Mutant of ProxyTargetReq: the authorization header stays.
ProxyTargetReq_Mutant(q) ==
  IF StartsWith(q.url, KUBE_BASE)
  THEN [q EXCEPT !.url = Replace(q.url, KUBE_BASE)]
  ELSE q

\* The request as getProxyTarget leaves it: authorization deleted, prefix removed.
ProxyTargetReq(q) ==
  IF StartsWith(q.url, KUBE_BASE)
  THEN [q EXCEPT !.auth = FALSE, !.url = Replace(q.url, KUBE_BASE)]
  ELSE q

\* const isWatchRequest = req.url.includes("watch="), on the rewritten url
IsWatchRequest(q) == Includes(ProxyTargetReq(q).url, WatchMarker)

\* ------------------------------------------------------- handleRequest
\* handleRequest up to its first await: 503 for no cluster, else ensureServer().
HandleRequest(r, q, rs, byTimer) ==
  /\ req' = [req EXCEPT ![r] = [q EXCEPT !.retry = byTimer]]
  /\ IF HasCluster(q)
     THEN /\ pc' = [pc EXCEPT ![r] = "ensure"]
          /\ res' = [res EXCEPT ![r] = rs]
     ELSE /\ pc' = [pc EXCEPT ![r] = "unknown"]
          /\ res' = [res EXCEPT ![r] = End([rs EXCEPT !.statusCode = ServiceUnavailable], "")]

\* http.createServer callback: a request arrives and is dispatched.  The
\* listener takes requests until close() (handleRequest never reads the closed
\* flag, so an arrival after close reaches no state that one before it does
\* not); the request takes the lowest free slot.
Accept(r, m, h, u, a, s) ==
  /\ ~closed
  /\ pc[r] = "idle"
  /\ \A k \in 1..(r - 1) : pc[k] # "idle"
  /\ HandleRequest(r, [method |-> m, host |-> h, url |-> u, auth |-> a, retry |-> FALSE],
                   [NoRes EXCEPT !.statusCode = s], FALSE)
  /\ UNCHANGED <<closed, retryCounters, clusters, call, timers, ws>>

\* ensureServer() resolved: getProxyTarget runs; getApiTarget is called or the
\* request goes to the router.
EnsureServerOk(r) ==
  /\ pc[r] = "ensure"
  /\ req' = [req EXCEPT ![r] = ProxyTargetReq(req[r])]
  /\ IF StartsWith(req[r].url, KUBE_BASE)
     THEN /\ pc' = [pc EXCEPT ![r] = "resolve"]
          /\ call' = [call EXCEPT ![r] = [watch |-> IsWatchRequest(req[r]), target |-> FALSE]]
     ELSE /\ pc' = [pc EXCEPT ![r] = "routed"]
          /\ call' = call
  /\ UNCHANGED <<closed, retryCounters, clusters, res, timers, issued, ws>>

\* ensureServer() rejected: handleRequest rejects, nobody catches it.
EnsureServerFail(r) ==
  /\ pc[r] = "ensure"
  /\ pc' = [pc EXCEPT ![r] = "rejected"]
  /\ UNCHANGED <<closed, retryCounters, clusters, req, res, call, timers, issued, ws>>

\* getApiTarget resolved with options (with or without a target): proxy.web.
GetApiTargetOk(r, hasTarget) ==
  /\ pc[r] = "resolve"
  /\ pc' = [pc EXCEPT ![r] = "web"]
  /\ call' = [call EXCEPT ![r].target = hasTarget]
  /\ UNCHANGED <<closed, retryCounters, clusters, req, res, timers, issued, ws>>

\* getApiTarget rejected: handleRequest rejects, nobody catches it.
GetApiTargetFail(r) ==
  /\ pc[r] = "resolve"
  /\ pc' = [pc EXCEPT ![r] = "rejected"]
  /\ UNCHANGED <<closed, retryCounters, clusters, req, res, call, timers, issued, ws>>

\* ---------------------------------------------------------- the hooks
\* The proxyRes hook answers itself: 502 and the cluster has a message.
FriendlyAnswer(q, status, msg) ==
  status = BadGateway /\ HasCluster(q) /\ msg # ""

\* Mutant of ProxyResCounters: a 5xx response does not reset the entry.
ProxyResCounters_Mutant(q, status, msg) ==
  IF FriendlyAnswer(q, status, msg) \/ q.method # "GET" \/ status >= InternalServerError
  THEN retryCounters
  ELSE IF RetryCounterKey(q) \in DOMAIN retryCounters
       THEN MapDelete(retryCounters, RetryCounterKey(q))
       ELSE retryCounters

\* The ledger after the proxyRes hook.
ProxyResCounters(q, status, msg) ==
  IF FriendlyAnswer(q, status, msg) THEN retryCounters
  ELSE IF q.method # "GET" THEN retryCounters
  ELSE IF RetryCounterKey(q) \in DOMAIN retryCounters
       THEN MapDelete(retryCounters, RetryCounterKey(q))
       ELSE retryCounters

\* Where the proxyRes hook returns.
ProxyResPc(q, status, msg) ==
  IF FriendlyAnswer(q, status, msg) THEN "friendly"
  ELSE IF q.method # "GET" THEN "passed"
  ELSE IF RetryCounterKey(q) \in DOMAIN retryCounters THEN "reset"
  ELSE "kept"

\* The response after the proxyRes hook and the transport's piping of the
\* backend response, which writes only to a response not yet finished.
ProxyResResponse(q, rs, status, msg) ==
  IF FriendlyAnswer(q, status, msg)
  THEN End(WriteHead(rs, status, TextPlain), msg)
  ELSE End(WriteHead(rs, status, BackendType), BackendBody)

\* proxy.on("proxyRes"): the backend answered with `status`; `msg` is what
\* contextHandler.proxyServerError() returns ("" for none).
ProxyRes(r, status, msg) ==
  /\ pc[r] = "web"
  /\ retryCounters' = ProxyResCounters(req[r], status, msg)
  /\ res' = [res EXCEPT ![r] = ProxyResResponse(req[r], res[r], status, msg)]
  /\ pc' = [pc EXCEPT ![r] = ProxyResPc(req[r], status, msg)]
  /\ UNCHANGED <<closed, clusters, req, call, timers, issued, ws>>

\* The error hook sets a retry timer.
SchedulesRetry(q, rs, target) ==
  /\ ~closed
  /\ target
  /\ Retryable(q, rs)
  /\ BelowCap(RetryCount(RetryCounterKey(q)))

\* Mutant of NewTimer: the closure keeps no count, every retry stores 1.
NewTimer_Mutant(r, q) ==
  [r |-> r, key |-> RetryCounterKey(q), retryCount |-> 0, timeoutMs |-> TimeoutMs(0)]

\* setTimeout(() => {...}, timeoutMs): the closure keeps key and retryCount.
NewTimer(r, q) ==
  [r |-> r, key |-> RetryCounterKey(q),
   retryCount |-> RetryCount(RetryCounterKey(q)),
   timeoutMs |-> TimeoutMs(RetryCount(RetryCounterKey(q)))]

\* Mutant of ErrorResponse: the closed flag is not looked at.
ErrorResponse_Mutant(rs) == End(WriteHead(rs, InternalServerError, TextPlain), OopsBody)

\* The response after the error hook: the generic 500 unless closed.
ErrorResponse(rs) ==
  IF closed THEN rs ELSE End(WriteHead(rs, InternalServerError, TextPlain), OopsBody)

\* proxy.on("error"): the transport failed for a request passed to proxy.web.
ProxyError(r) ==
  /\ pc[r] = "web"
  /\ timers' = IF SchedulesRetry(req[r], res[r], call[r].target)
               THEN Append(timers, NewTimer(r, req[r]))
               ELSE timers
  /\ res' = [res EXCEPT ![r] = ErrorResponse(res[r])]
  /\ pc' = [pc EXCEPT ![r] =
              IF closed THEN "suppressed"
              ELSE IF SchedulesRetry(req[r], res[r], call[r].target) THEN "timer"
              ELSE "failed"]
  /\ UNCHANGED <<closed, retryCounters, clusters, req, call, issued, ws>>

\* Mutant of MayFire: pending timers fire in any order.
MayFire_Mutant(i) == i \in 1..Len(timers)

\* A timer may fire when no timer set before it is due at the same time or
\* earlier: one set earlier with a delay not longer.
MayFire(i) ==
  \A j \in 1..(i - 1) : timers[j].timeoutMs > timers[i].timeoutMs

\* Mutant of TimerCount: the count read at the failure is stored as it is.
TimerCount_Mutant(t) == t.retryCount

\* The count the timer callback stores.
TimerCount(t) == t.retryCount + 1

\* The retry timer fires: the count is stored, then the request is dispatched again.
TimerFire(i) ==
  /\ i \in 1..Len(timers)
  /\ MayFire(i)
  /\ LET t == timers[i] IN
       /\ retryCounters' = MapSet(retryCounters, t.key, TimerCount(t))
       /\ timers' = SubSeq(timers, 1, i - 1) \o SubSeq(timers, i + 1, Len(timers))
       /\ HandleRequest(t.r, req[t.r], res[t.r], TRUE)
  /\ UNCHANGED <<closed, clusters, call, issued, ws>>

\* Mutant of Close: closing also cancels the pending retry timers.
Close_Mutant ==
  /\ ~closed
  /\ closed' = TRUE
  /\ timers' = <<>>
  /\ UNCHANGED <<retryCounters, clusters, pc, req, res, call, issued, ws>>

\* close(): the listener is closed and the flag set.
Close ==
  /\ ~closed
  /\ closed' = TRUE
  /\ UNCHANGED <<retryCounters, clusters, pc, req, res, call, timers, issued, ws>>

\* The cluster manager forgets a cluster.
RemoveCluster(h) ==
  /\ h \in clusters
  /\ clusters' = clusters \ {h}
  /\ UNCHANGED <<closed, retryCounters, pc, req, res, call, timers, issued, ws>>

\* The cluster manager learns a cluster.
AddCluster(h) ==
  /\ h \notin clusters
  /\ clusters' = clusters \cup {h}
  /\ UNCHANGED <<closed, retryCounters, pc, req, res, call, timers, issued, ws>>

\* ------------------------------------------------------ handleWsUpgrade
\* clusterManager.getClusterForRequest(req)
ClusterFor(h) == IF h \in clusters THEN h ELSE Undefined

\* Mutant of NodeParam: the value of the first parameter, whatever its name.
NodeParam_Mutant(query) ==
  IF query = <<>> THEN <<>> ELSE <<query[1][2]>>

\* url.parse(req.url, true).query["node"]?.toString(): the values of the
\* parameters named node (joined by commas); none stands for undefined.
NodeParam(query) ==
  LET named == SelectSeq(query, LAMBDA p : p[1] = "node")
  IN  [i \in 1..Len(named) |-> named[i][2]]

\* proxyServer.on("upgrade"): handleWsUpgrade makes a WebSocket server and hands
\* it the handshake; `ok` is whether handleUpgrade completes it.  When it does,
\* the "connection" listener looks the cluster up and calls nodeShell.open.
HandleWsUpgrade(h, query, ok) ==
  /\ ~closed
  /\ ws.pc = "none"
  /\ ws' = IF ok
           THEN [pc |-> "open", host |-> h, query |-> query,
                 opened |-> <<[cluster |-> ClusterFor(h), node |-> NodeParam(query)]>>]
           ELSE [pc |-> "aborted", host |-> h, query |-> query, opened |-> <<>>]
  /\ UNCHANGED <<closed, retryCounters, clusters, pc, req, res, call, timers, issued>>

\* The upgrade connection is over.
WsRelease ==
  /\ ws.pc # "none"
  /\ ws' = NoWs
  /\ UNCHANGED <<closed, retryCounters, clusters, pc, req, res, call, timers, issued>>

\* The positions the proxyRes hook and the error hook leave a request in.
ResponsePcs == {"friendly", "passed", "reset", "kept"}

ErrorPcs == {"timer", "failed", "suppressed"}

\* The positions of a request that nothing will touch again.
Over == {"unknown", "routed", "failed", "suppressed", "rejected"} \cup ResponsePcs

\* The request is over and its slot takes the next one.
Release(r) ==
  /\ pc[r] \in Over
  /\ pc' = [pc EXCEPT ![r] = "idle"]
  /\ req' = [req EXCEPT ![r] = NoReq]
  /\ res' = [res EXCEPT ![r] = NoRes]
  /\ call' = [call EXCEPT ![r] = NoCall]
  /\ UNCHANGED <<closed, retryCounters, clusters, timers, issued, ws>>

\* ------------------------------------------------------ specifications
TypeOK ==
  /\ closed \in BOOLEAN
  /\ clusters \subseteq Hosts
  /\ \A k \in DOMAIN retryCounters : retryCounters[k] \in Nat

Init ==
  /\ closed = FALSE
  /\ retryCounters = <<>>
  /\ clusters \in SUBSET Hosts
  /\ pc = [r \in AllReqs |-> "idle"]
  /\ req = [r \in AllReqs |-> NoReq]
  /\ res = [r \in AllReqs |-> NoRes]
  /\ call = [r \in AllReqs |-> NoCall]
  /\ timers = <<>>
  /\ issued = 0
  /\ ws = NoWs

\* A request arrives under Spec: any request, at most MaxIssued of them.
Arrive(r, m, h, u, a, s) ==
  /\ issued < MaxIssued
  /\ issued' = issued + 1
  /\ Accept(r, m, h, u, a, s)

\* A request arrives under SpecCap: arrivals are not counted.
ArriveCap(r, h, u) ==
  /\ issued' = issued
  /\ Accept(r, "GET", h, u, TRUE, Unset)

Next ==
  \/ \E r \in Reqs, m \in Methods, h \in Hosts, u \in Urls, s \in StartStatus :
       Arrive(r, m, h, u, TRUE, s)
  \/ \E r \in Reqs : EnsureServerOk(r)
  \/ \E r \in Reqs : EnsureServerFail(r)
  \/ \E r \in Reqs, t \in BOOLEAN : GetApiTargetOk(r, t)
  \/ \E r \in Reqs : GetApiTargetFail(r)
  \/ \E r \in Reqs, s \in BackendStatus, msg \in {"", FriendlyBody} : ProxyRes(r, s, msg)
  \/ \E r \in Reqs : ProxyError(r)
  \/ \E i \in 1..MaxReqs : TimerFire(i)
  \/ Close
  \/ \E h \in Hosts : RemoveCluster(h)
  \/ \E h \in Hosts : AddCluster(h)
  \/ \E r \in Reqs : Release(r)

Spec == Init /\ [][Next]_vars

\* The backoff of one API path of one cluster: GET requests for it keep arriving,
\* without limit, and each forward fails or is answered.
NextCap ==
  \/ \E r \in Slots, h \in Hosts, u \in CapUrls : ArriveCap(r, h, u)
  \/ \E r \in Slots : EnsureServerOk(r)
  \/ \E r \in Slots : GetApiTargetOk(r, TRUE)
  \/ \E r \in Slots : ProxyError(r)
  \/ \E r \in Slots : ProxyRes(r, 200, "")
  \/ \E i \in 1..MaxSlots : TimerFire(i)
  \/ Close
  \/ \E r \in Slots : Release(r)

InitCap == Init /\ clusters = Hosts

SpecCap == InitCap /\ [][NextCap]_vars

\* Upgrade requests beside the retries of one API path, whose cluster comes and
\* goes.
NextWs ==
  \/ \E r \in Reqs, h \in Hosts, u \in CapUrls : Arrive(r, "GET", h, u, TRUE, Unset)
  \/ \E r \in Reqs : EnsureServerOk(r)
  \/ \E r \in Reqs : GetApiTargetOk(r, TRUE)
  \/ \E r \in Reqs : ProxyError(r)
  \/ \E i \in 1..MaxReqs : TimerFire(i)
  \/ \E h \in Hosts : RemoveCluster(h)
  \/ \E h \in Hosts : AddCluster(h)
  \/ \E r \in Reqs : Release(r)
  \/ \E h \in Hosts, query \in WsQueries, ok \in BOOLEAN : HandleWsUpgrade(h, query, ok)
  \/ WsRelease

SpecWs == Init /\ [][NextWs]_vars

\* ------------------------------------------------------------- claims
\* The ledger key of request r: host header followed by url.
KeyOf(r) == <<req[r].host, req[r].url>>

\* The ledger count of a key, an absent key counting as 0.
CountOf(key) == IF key \in DOMAIN retryCounters THEN retryCounters[key] ELSE 0

\* This step is a run of the error hook for request r.
ErrorHookRuns(r) == pc[r] = "web" /\ pc'[r] \in ErrorPcs

\* This step is a run of the proxyRes hook for request r.
ResponseHookRuns(r) == pc[r] = "web" /\ pc'[r] \in ResponsePcs

\* The client of request r has been sent the generic 500.
GotGeneric500(rs) ==
  rs.finished /\ rs.sentStatus = 500 /\ rs.body = "Oops, something went wrong."

\* C1: when the error hook runs for a GET request with a forwarding target, the
\* server not closed, the response status unset or >= 500 and the count n of the
\* key host+url below 20, exactly one retry is set, for that request and key,
\* with delay n * 250 ms, n being the count read at the failure.
C1_RetryScheduled ==
  [][\A r \in AllReqs :
       ( /\ ErrorHookRuns(r)
         /\ req[r].method = "GET"
         /\ call[r].target
         /\ ~closed
         /\ (res[r].statusCode = Unset \/ res[r].statusCode >= 500)
         /\ CountOf(KeyOf(r)) < 20 )
       => timers' = Append(timers, [r |-> r, key |-> KeyOf(r),
                                    retryCount |-> CountOf(KeyOf(r)),
                                    timeoutMs |-> CountOf(KeyOf(r)) * 250])]_vars

\* C1 witness: a retry is pending that was set at count 3 with delay 750 ms.
C1_Witness ==
  \E i \in 1..Len(timers) :
    /\ timers[i].retryCount = 3
    /\ timers[i].timeoutMs = 750
    /\ pc[timers[i].r] = "timer"

\* C2 as stated: when the error hook runs for a GET request whose key has count
\* 20, no retry is set, the client has the generic 500 and the entry stays 20.
C2_AsStated ==
  [][\A r \in AllReqs :
       ( /\ ErrorHookRuns(r)
         /\ req[r].method = "GET"
         /\ CountOf(KeyOf(r)) >= 20 )
       => /\ timers' = timers
          /\ GotGeneric500(res'[r])
          /\ KeyOf(r) \in DOMAIN retryCounters'
          /\ retryCounters'[KeyOf(r)] = 20]_vars

\* C2 amended: the same while the server is not closed; once closed, the hook
\* writes nothing (no retry is set and the entry stays 20 either way).
C2_CapStopsRetry ==
  [][\A r \in AllReqs :
       ( /\ ErrorHookRuns(r)
         /\ req[r].method = "GET"
         /\ CountOf(KeyOf(r)) >= 20 )
       => /\ timers' = timers
          /\ ~closed => GotGeneric500(res'[r])
          /\ KeyOf(r) \in DOMAIN retryCounters'
          /\ retryCounters'[KeyOf(r)] = 20]_vars

\* C2 witness: a GET failed at count 20: no timer, the generic 500, the entry at 20.
C2_Witness ==
  \E r \in AllReqs :
    /\ pc[r] = "failed"
    /\ req[r].method = "GET"
    /\ CountOf(KeyOf(r)) = 20
    /\ GotGeneric500(res[r])
    /\ timers = <<>>

\* C3 as stated: the dispatch a retry timer makes for a GET of an API path is
\* forwarded to the backend again, never handed to the internal router.
C3_RetryForwardedAgain ==
  \A r \in AllReqs : (req[r].retry /\ req[r].method = "GET") => pc[r] # "routed"

\* C4 as stated: a run of the error hook that sets a retry writes nothing to
\* the response of that request.
C4_RetryOwnsResponse ==
  [][\A r \in AllReqs :
       (ErrorHookRuns(r) /\ pc'[r] = "timer") => res'[r] = res[r]]_vars

\* C5 as stated: after the proxyRes hook ran for a request whose key was in
\* the ledger, the key is absent, whatever the status and the method.
C5_AsStated ==
  [][\A r \in AllReqs :
       (ResponseHookRuns(r) /\ KeyOf(r) \in DOMAIN retryCounters)
       => KeyOf(r) \notin DOMAIN retryCounters']_vars

\* C5 amended: after the proxyRes hook ran for a GET request whose key was in
\* the ledger, and did not answer 502 with the cluster's message itself, the
\* key is absent; for another method, or when the hook answers itself, the
\* ledger is as it was.
C5_ResponseClearsEntry ==
  [][\A r \in AllReqs :
       (ResponseHookRuns(r) /\ KeyOf(r) \in DOMAIN retryCounters)
       => IF req[r].method = "GET" /\ pc'[r] # "friendly"
          THEN /\ KeyOf(r) \notin DOMAIN retryCounters'
               /\ \A k \in DOMAIN retryCounters \ {KeyOf(r)} :
                    k \in DOMAIN retryCounters' /\ retryCounters'[k] = retryCounters[k]
          ELSE retryCounters' = retryCounters]_vars

\* C5 witness: the hook has deleted the entry of a GET request, whose key is absent.
C5_Witness ==
  \E r \in AllReqs :
    pc[r] = "reset" /\ req[r].method = "GET" /\ KeyOf(r) \notin DOMAIN retryCounters

\* C6 as stated: for a request that is not a GET, neither hook changes the
\* ledger, the error hook sets no retry, and a failure gets the generic 500.
C6_AsStated ==
  [][\A r \in AllReqs :
       (req[r].method # "GET" /\ (ErrorHookRuns(r) \/ ResponseHookRuns(r)))
       => /\ retryCounters' = retryCounters
          /\ timers' = timers
          /\ ErrorHookRuns(r) => GotGeneric500(res'[r])]_vars

\* C6 amended: the same, the generic 500 being written while the server is not
\* closed.
C6_NonGetNeverRetried ==
  [][\A r \in AllReqs :
       (req[r].method # "GET" /\ (ErrorHookRuns(r) \/ ResponseHookRuns(r)))
       => /\ retryCounters' = retryCounters
          /\ timers' = timers
          /\ pc'[r] # "timer"
          /\ (ErrorHookRuns(r) /\ ~closed) => GotGeneric500(res'[r])]_vars

\* C6 witness: a POST whose key has a ledger entry failed and has the generic
\* 500; the entry is in place and no timer is pending.
C6_Witness ==
  \E r \in AllReqs :
    /\ pc[r] = "failed"
    /\ req[r].method = "POST"
    /\ KeyOf(r) \in DOMAIN retryCounters
    /\ GotGeneric500(res[r])
    /\ timers = <<>>

\* C7 as stated: a request whose ensureServer or getApiTarget failed does not
\* end without a response: it has the generic 500 or a retry is pending for it.
C7_FailurePropagates ==
  \A r \in AllReqs :
    pc[r] = "rejected"
    => \/ res[r].finished
       \/ \E i \in 1..Len(timers) : timers[i].r = r

\* C8 as stated: a request dispatched with no cluster for it has been sent 503
\* with an empty body, on a first attempt and on a retry alike.
C8_UnknownCluster503 ==
  \A r \in AllReqs :
    pc[r] = "unknown" => (res[r].sentStatus = 503 /\ res[r].body = "")

\* C9: once the server is closed, a run of the error hook sets no retry, writes
\* nothing to the response and leaves the ledger as it is.
C9_ClosedHookNoOp ==
  [][\A r \in AllReqs :
       (closed /\ ErrorHookRuns(r))
       => /\ timers' = timers
          /\ res'[r] = res[r]
          /\ retryCounters' = retryCounters]_vars

\* C9 witness: the hook ran after close for a retryable GET with a target and
\* nothing was written.
C9_Witness ==
  \E r \in AllReqs :
    /\ closed
    /\ pc[r] = "suppressed"
    /\ req[r].method = "GET"
    /\ call[r].target
    /\ res[r].statusCode = Unset
    /\ ~res[r].finished

\* C10: when getProxyTarget runs for a request whose path begins with the API
\* prefix, getApiTarget is invoked, and at that moment the request has no
\* authorization header, its path is the path it had with the leading prefix
\* removed, and the watch flag is true exactly when that path contains "watch=".
C10_TargetResolution ==
  [][\A r \in AllReqs :
       ( /\ pc[r] = "ensure"
         /\ pc'[r] \notin {"ensure", "rejected"}
         /\ Len(req[r].url) >= 1
         /\ req[r].url[1] = "/api-kube" )
       => /\ pc'[r] = "resolve"
          /\ ~req'[r].auth
          /\ req'[r].url = Tail(req[r].url)
          /\ call'[r].watch = (\E i \in 1..Len(req'[r].url) : req'[r].url[i] = "watch=")]_vars

\* C10 witness: getApiTarget is pending with the watch flag set, for a request
\* that came with an authorization header and now has none.
C10_Witness ==
  \E r \in AllReqs :
    /\ pc[r] = "resolve"
    /\ call[r].watch
    /\ ~req[r].auth
    /\ req[r].url = <<"pods", "watch=">>

\* The path of request r begins with the API prefix.
HasApiPrefix(r) == Len(req[r].url) >= 1 /\ req[r].url[1] = "/api-kube"

\* Request r is being forwarded: its target is awaited or proxy.web has it.
Forwarding == {"resolve", "web"}

\* C11: a request of a registered cluster whose path does not begin with the API
\* prefix is never forwarded: when its readiness check succeeds it goes to the
\* router, unchanged, and a routed request is not handed on again; a request
\* enters forwarding only from the readiness check with a prefixed path.
C11_NonApiRouted ==
  [][\A r \in AllReqs :
       /\ (pc[r] = "ensure" /\ ~HasApiPrefix(r) /\ pc'[r] \notin {"ensure", "rejected"})
            => (pc'[r] = "routed" /\ req'[r] = req[r] /\ res'[r] = res[r])
       /\ (pc[r] = "routed") => (pc'[r] \in {"routed", "idle"})
       /\ (pc[r] \notin Forwarding /\ pc'[r] \in Forwarding)
            => (pc[r] = "ensure" /\ HasApiPrefix(r))]_vars

\* A first dispatch of /app has reached the router.
C11_Witness ==
  \E r \in AllReqs : pc[r] = "routed" /\ ~req[r].retry /\ req[r].url = <<"app">>

\* The node parameter handed over is what the query of the upgrade request says:
\* the values of its parameters named node, none when there is no such parameter.
NodeAsAsked(node, query) ==
  /\ Len(node) = Cardinality({j \in DOMAIN query : query[j][1] = "node"})
  /\ \A i \in DOMAIN node : \E j \in DOMAIN query : query[j] = <<"node", node[i]>>

\* C12: an upgrade request stays off the HTTP forwarding path: handling it leaves
\* the ledger, the retry timers and every HTTP request and response as they are
\* (no retry, no ledger access, no generic 500), whether or not its cluster is
\* found; when the handshake completes the session handler is called exactly
\* once, with the result of the cluster lookup (undefined when there is none) and
\* the node parameter of the query; when it does not, the handler is not called.
C12_UpgradeApart ==
  [][(ws' # ws /\ ws'.pc # "none") =>
       /\ UNCHANGED <<retryCounters, timers, pc, req, res, call, closed>>
       /\ ws'.pc = "open" =>
            /\ Len(ws'.opened) = 1
            /\ ws'.opened[1].cluster =
                 (IF ws'.host \in clusters THEN ws'.host ELSE "undefined")
            /\ NodeAsAsked(ws'.opened[1].node, ws'.query)
       /\ ws'.pc = "aborted" => ws'.opened = <<>>]_vars

\* A session was opened for an upgrade request with a node parameter whose
\* cluster is not found, while a retry is pending and the ledger has an entry.
C12_Witness ==
  /\ ws.pc = "open"
  /\ ws.opened = <<[cluster |-> "undefined", node |-> <<"worker-1">>]>>
  /\ timers # <<>>
  /\ retryCounters # <<>>

\* The client of the response has been sent `status` with a text/plain body `msg`.
GotPlain(rs, status, msg) ==
  rs.finished /\ rs.sentStatus = status /\ rs.contentType = "text/plain" /\ rs.body = msg

\* C13: when the backend answers 502 and the request's cluster supplies a
\* server-error message, the client receives status 502, content type text/plain
\* and that message as the body; when the status is not 502, or there is no
\* cluster or no message, the response hook writes nothing to the client
\* response: the response is as it was, or holds what the backend sent.
C13_FriendlyBadGateway ==
  [][\A r \in AllReqs, status \in BackendStatus, msg \in {"", "proxyServerError"} :
       ProxyRes(r, status, msg) =>
         IF status = 502 /\ req[r].host \in clusters /\ msg # ""
         THEN GotPlain(res'[r], 502, msg)
         ELSE \/ res'[r] = res[r]
              \/ /\ res'[r].sentStatus = status
                 /\ res'[r].contentType # "text/plain"
                 /\ res'[r].body = "backend"]_vars

\* C14: in every reachable state every count in the ledger is an integer from 1
\* to 20, whatever failures raced.
C14_CountsInRange ==
  \A key \in DOMAIN retryCounters : retryCounters[key] \in 1..20

\* The count is 20 while the retry of a second failure that also read 19 is
\* still pending.
C14_Witness ==
  \E i \in 1..Len(timers) :
    /\ timers[i].retryCount = 19
    /\ timers[i].key \in DOMAIN retryCounters
    /\ retryCounters[timers[i].key] = 20

\* This step is the firing of the pending timer t.
TimerFires(t) == pc[t.r] = "timer" /\ pc'[t.r] # "timer"

\* C15: a timer set at a failure remembers the count read then, an absent key
\* counting as 0; when it fires it stores that count plus one, which is the
\* ledger's count plus one when nothing changed the key's entry in between, and
\* in the state in which the request is dispatched again (its cluster lookup
\* done) the ledger already holds the new count.
C15_TimerStoresReadPlusOne ==
  [][/\ \A r \in AllReqs :
          (ErrorHookRuns(r) /\ pc'[r] = "timer") =>
            timers'[Len(timers')].retryCount = CountOf(KeyOf(r))
     /\ \A i \in 1..Len(timers) :
          TimerFires(timers[i]) =>
            /\ timers[i].key \in DOMAIN retryCounters'
            /\ retryCounters'[timers[i].key] = timers[i].retryCount + 1
            /\ CountOf(timers[i].key) = timers[i].retryCount
                 => retryCounters'[timers[i].key] = CountOf(timers[i].key) + 1
            /\ pc'[timers[i].r] \in {"ensure", "unknown"}
            /\ req'[timers[i].r].retry]_vars

\* The only request there is has been dispatched again by its timer, which
\* stored 3.
C15_Witness ==
  /\ timers = <<>>
  /\ \E r \in AllReqs :
       /\ pc[r] = "ensure" /\ req[r].retry
       /\ KeyOf(r) \in DOMAIN retryCounters /\ retryCounters[KeyOf(r)] = 3
       /\ \A k \in AllReqs \ {r} : pc[k] = "idle"

C17_AsStated ==
  [][\A key \in DOMAIN retryCounters' \ DOMAIN retryCounters :
       retryCounters'[key] = 1]_vars

\* C17, amended: an absent key gets an entry only when a retry timer of that key
\* fires, and the entry is the count that timer read at its failure plus one; a
\* timer set while the key is absent read 0 and stores 1, one set while the key
\* had an entry read that entry, and stores it plus one even if the entry has
\* been cleared since.
C17_TimerRestoresCount ==
  [][/\ \A key \in DOMAIN retryCounters' \ DOMAIN retryCounters :
          \E i \in 1..Len(timers) :
            /\ TimerFires(timers[i])
            /\ timers[i].key = key
            /\ retryCounters'[key] = timers[i].retryCount + 1
     /\ \A r \in AllReqs :
          (ErrorHookRuns(r) /\ pc'[r] = "timer") =>
            /\ timers'[Len(timers')].key = KeyOf(r)
            /\ KeyOf(r) \notin DOMAIN retryCounters => timers'[Len(timers')].retryCount = 0
            /\ KeyOf(r) \in DOMAIN retryCounters
                 => timers'[Len(timers')].retryCount = retryCounters[KeyOf(r)]]_vars

\* A delivered GET response has just cleared the entry of a key for which a
\* timer that read 2 is pending.
C17_Witness ==
  \E r \in AllReqs, i \in 1..Len(timers) :
    /\ pc[r] = "reset"
    /\ KeyOf(r) \notin DOMAIN retryCounters
    /\ timers[i].key = KeyOf(r)
    /\ timers[i].retryCount = 2

\* The error hook runs in this step for a GET request whose response carries a
\* status from 1 to 499.
GetFailsBelow500(r) ==
  ErrorHookRuns(r) /\ req[r].method = "GET" /\ res[r].statusCode \in 1..499

\* C18 as stated: when the error hook runs for a GET request whose response
\* already carries a status from 1 to 499, no retry is set, the ledger is
\* unchanged and the generic 500 is written.
C18_AsStated ==
  [][\A r \in AllReqs :
       GetFailsBelow500(r) =>
         /\ timers' = timers
         /\ retryCounters' = retryCounters
         /\ GotGeneric500(res'[r])]_vars

\* C18, amended: in that case no retry is set and the ledger is unchanged; the
\* generic 500 is written if the server is not closed, and nothing is written if
\* it is.
C18_StatusBelow500NotRetried ==
  [][\A r \in AllReqs :
       GetFailsBelow500(r) =>
         /\ timers' = timers
         /\ retryCounters' = retryCounters
         /\ IF closed THEN res'[r] = res[r] ELSE GotPlain(res'[r], 500, "Oops, something went wrong.")]_vars

\* A GET with a forwarding target failed while the server was open and the count
\* below the cap, and no retry was set: its response carried a status below 500.
C18_Witness ==
  \E r \in AllReqs :
    /\ pc[r] = "failed" /\ req[r].method = "GET" /\ call[r].target /\ ~req[r].retry
    /\ ~closed /\ timers = <<>>
    /\ GotGeneric500(res[r])

\* C19: closing cancels no timer.  The step that closes the server leaves the
\* pending timers as they are; while the server is closed a pending timer goes
\* away only by firing, some pending timer can always fire, and a timer that
\* fires then stores its count (the count read plus one) and dispatches its
\* request again.
C19_TimersSurviveClose ==
  [][/\ (~closed /\ closed') => timers' = timers
     /\ closed =>
          /\ timers # <<>> => ENABLED (\E i \in 1..Len(timers) : TimerFire(i))
          /\ \A i \in 1..Len(timers) :
               \/ \E k \in 1..Len(timers') : timers'[k] = timers[i]
               \/ /\ TimerFires(timers[i])
                  /\ timers[i].key \in DOMAIN retryCounters'
                  /\ retryCounters'[timers[i].key] = timers[i].retryCount + 1
                  /\ pc'[timers[i].r] \in {"ensure", "unknown"}
                  /\ req'[timers[i].r].retry]_vars

\* The server is closed, the error hook has already been suppressed for one
\* request, and a timer set before the close, which read 3, is still pending.
C19_Witness ==
  /\ closed
  /\ \E r \in AllReqs : pc[r] = "suppressed"
  /\ \E i \in 1..Len(timers) : timers[i].retryCount = 3

\* The ledgers m1 and m2 agree on every key but `key`.
SameButFor(m1, m2, key) ==
  /\ DOMAIN m1 \ {key} = DOMAIN m2 \ {key}
  /\ \A k \in DOMAIN m1 \ {key} : m1[k] = m2[k]

\* C20: the ledger changes only when a retry timer fires, which sets the entry
\* of its own key and no other, or when the response hook runs for a GET, which
\* removes the entry of that request's key and no other; no step of a dispatch
\* (the arrival, the readiness check, the target lookup) changes it, and routing
\* a request without the API prefix changes neither the ledger nor the timers.
C20_LedgerWriters ==
  [][/\ retryCounters' # retryCounters =>
          \/ \E i \in 1..Len(timers) :
               /\ TimerFires(timers[i])
               /\ timers[i].key \in DOMAIN retryCounters'
               /\ SameButFor(retryCounters, retryCounters', timers[i].key)
          \/ \E r \in AllReqs :
               /\ ResponseHookRuns(r) /\ req[r].method = "GET"
               /\ KeyOf(r) \in DOMAIN retryCounters /\ KeyOf(r) \notin DOMAIN retryCounters'
               /\ SameButFor(retryCounters, retryCounters', KeyOf(r))
     /\ \A r \in AllReqs :
          (pc[r] \in {"idle", "ensure", "resolve"} /\ pc'[r] # pc[r])
            => retryCounters' = retryCounters
     /\ \A r \in AllReqs :
          (pc[r] = "ensure" /\ pc'[r] = "routed")
            => (retryCounters' = retryCounters /\ timers' = timers)]_vars

\* A first dispatch of /app has been routed while the ledger holds an entry.
C20_Witness ==
  /\ retryCounters # <<>>
  /\ \E r \in AllReqs : pc[r] = "routed" /\ req[r].url = <<"app">> /\ ~req[r].retry
====
